---- MODULE Spec2Model ----
(***************************************************************************)
(* Model of the Rig orchestration object of src/core/rig.py: the module    *)
(* sorter (rig_modules / sort_parent_module), module add/delete, and the   *)
(* build / unbuild lifecycle over a scene graph of named nodes.            *)
(*                                                                         *)
(* Five specifications:                                                    *)
(*   SortSpec      the sorter as a pure function, on every parent_module   *)
(*                 graph (cyclic ones included) and every listing order;   *)
(*   SortStepSpec  the same sorter one statement at a time, with its call  *)
(*                 stack, under weak fairness of the interpreter's step;   *)
(*   Spec          the lifecycle of the rig Rig() makes: build, unbuild    *)
(*                 and the parent-space strings set on its controllers;    *)
(*   EditSpec      add_module and delete_module on that rig, and build;    *)
(*   FacadeSpec    every public call, Rig() included, from an empty scene, *)
(*                 up to MaxCalls calls.                                   *)
(*                                                                         *)
(* Every action is one whole call.  The hooks run_scripts starts are       *)
(* recorded in the log and taken to leave the scene alone.                 *)
(***************************************************************************)
EXTENDS Naturals, Integers, Sequences, FiniteSets, TLC

(* ------------------------------ bounds --------------------------------- *)

\* number of module names available to add_module
MaxModules == 3

\* number of modules in the graphs handed to the sorter in SortSpec
SortN == 3

\* largest numeric suffix the host hands out when a node name is already taken
MaxCopies == 1

\* number of facade calls made on one scene in FacadeSpec
MaxCalls == 4

VARIABLES
    modules,            \* children of modules_group, in listRelatives order (module names)
    parent_joint,       \* module -> the joint it attaches to (None when unset)
    nodes,              \* cmds.ls('*'): every node of the scene
    tagged,             \* the nodes carrying the is_build_node attribute
    driven,             \* modules whose deform joints all have an input on their
                        \* translate, rotate and scale
    is_built,           \* Rig.is_built
    is_initialized,     \* Rig.is_initialized
    skeleton_visibility,\* visibility of skeleton_group
    module_is_built,    \* module -> Module.is_built
    visibility,         \* module -> visibility of its placement group
    attributes_state,   \* module -> string attribute of its controller
    shape_data,         \* module -> string attribute of its controller
    parent_space_data,  \* module -> string attribute of its controller
    call,               \* the last top-level call: what it was, how it ended, what it found
    log,                \* the collaborator calls made by the last top-level call, in order
    build_entry,        \* scene at entry of a completed build() not yet followed by
                        \* anything but unbuild()
    sort_parent,    \* SortSpec: module -> its parent_module (0 is None)
    sort_input,     \* SortSpec: children of modules_group, in listRelatives order
    sort_result,    \* SortSpec: value returned by rig_modules
    sort_outcome,   \* SortSpec: "pending", "returned" (the code has no other exit)
    sort_work,      \* SortStepSpec: the list `modules` of rig_modules, as popped so far
    sort_stack,     \* SortStepSpec: the frames of sort_parent_module, innermost last
    calls           \* FacadeSpec: number of facade calls made so far

\* what only Rig() and publish() change
facadeVars == <<is_initialized, skeleton_visibility>>

rigVars == <<modules, parent_joint, nodes, tagged, driven, is_built, module_is_built,
             visibility, attributes_state, shape_data, parent_space_data,
             call, log, build_entry, facadeVars>>

sortVars == <<sort_parent, sort_input, sort_result, sort_outcome, sort_work, sort_stack>>

vars == <<rigVars, sortVars, calls>>

(* ------------------------- Python list helpers ------------------------- *)

\* x in lst
InList(x, lst) == \E i \in 1..Len(lst) : lst[i] = x

\* lst.remove(x): drops the first occurrence of x
ListRemove(lst, x) ==
    LET i == CHOOSE k \in 1..Len(lst) :
                 lst[k] = x /\ \A j \in 1..(k - 1) : lst[j] # x
    IN  SubSeq(lst, 1, i - 1) \o SubSeq(lst, i + 1, Len(lst))

\* the value lst.pop() returns, and the list it leaves
ListLast(lst) == lst[Len(lst)]
ListFront(lst) == SubSeq(lst, 1, Len(lst) - 1)

\* position of x in lst (0 when absent)
IndexOf(x, lst) ==
    IF InList(x, lst) THEN CHOOSE k \in 1..Len(lst) :
                               lst[k] = x /\ \A j \in 1..(k - 1) : lst[j] # x
    ELSE 0

Occurrences(x, lst) == Cardinality({i \in 1..Len(lst) : lst[i] = x})

(* ------------------------------ the sorter ----------------------------- *)

\* Faulty sort_parent_module: the module is appended before its parent chain
\* is resolved.
sort_parent_module_appendfirst(module, work, par) ==
    [modules |-> work.modules, sorted |-> Append(work.sorted, module)]

\* Rig.sort_parent_module: if the parent is still in the working list, take it
\* out and place it (and its chain) first; then append the module.
\* work = [modules |-> working list, sorted |-> sorted_modules], both mutated
\* in place by the code, so the updated pair is returned.
RECURSIVE sort_parent_module(_, _, _)
sort_parent_module(module, work, par) ==
    LET parent_module == par[module]
        after == IF InList(parent_module, work.modules)
                 THEN sort_parent_module(
                          parent_module,
                          [modules |-> ListRemove(work.modules, parent_module),
                           sorted  |-> work.sorted],
                          par)
                 ELSE work
    IN  [modules |-> after.modules, sorted |-> Append(after.sorted, module)]

\* the while loop of rig_modules: pop the last module, sort it in
RECURSIVE sort_loop(_, _)
sort_loop(work, par) ==
    IF work.modules = <<>> THEN work.sorted
    ELSE sort_loop(
             sort_parent_module(
                 ListLast(work.modules),
                 [modules |-> ListFront(work.modules), sorted |-> work.sorted],
                 par),
             par)

\* Rig.rig_modules on the children list `children` of modules_group
rig_modules_of(children, par) ==
    sort_loop([modules |-> children, sorted |-> <<>>], par)

(* ------------------------------ the scene ------------------------------ *)

ModuleNames == 1..MaxModules

\* the unset value of an ObjectField
None == <<"None", 0, 0>>

\* 'RIG' and the three groups _create_basic_hierarchy makes under it
basic_hierarchy ==
    {<<"RIG", 0, 0>>, <<"MODULES", 0, 0>>, <<"EXTRAS", 0, 0>>, <<"SKELETON", 0, 0>>}

\* the authoring nodes one module owns
module_node(m) == <<"module", m, 0>>
placement_group(m) == <<"placement", m, 0>>
controller(m) == <<"ctl", m, 0>>
deform_joints(m) == {<<"joint", m, 1>>, <<"joint", m, 2>>}

\* the nodes a build makes for module m hang under its module node; the
\* deform joints hang under skeleton_group
IsUnderModule(n, m) == n[2] = m /\ n[1] \in {"module", "placement", "ctl", "build", "space"}

\* everything cmds.delete(module.node_name) takes with it: the node and its subtree
module_subtree(m, scene) == {n \in scene : IsUnderModule(n, m)}

authoring_nodes(m) ==
    {module_node(m), placement_group(m), controller(m)} \cup deform_joints(m)

IsJoint(n) == n[1] = "joint"

\* the registry of module implementations
all_rig_modules == {"chain"}

\* Module.parent_module: the module that owns the parent joint (0 is None)
parent_module_of(pj) == [m \in ModuleNames |-> IF pj[m] = None THEN 0 ELSE pj[m][2]]

\* Rig.rig_modules on the live scene
rig_modules == rig_modules_of(modules, parent_module_of(parent_joint))

\* Rig.build_nodes: every node that has the is_build_node attribute
build_nodes == {n \in nodes : n \in tagged}

\* the name the host gives a new node: the first free numeric suffix
FreshNode(kind, m, scene) ==
    <<kind, m, CHOOSE c \in 1..MaxCopies :
                   /\ <<kind, m, c>> \notin scene
                   /\ \A d \in 1..(c - 1) : <<kind, m, d>> \in scene>>

HasFreshNode(kind, m, scene) == {c \in 1..MaxCopies : <<kind, m, c>> \notin scene} # {}

(* --------------------------- persisted strings ------------------------- *)

BadJson == "{bad json"
ListJson == "[1]"
NoParentsJson == "{\"parents\": []}"
SpacesJson == "{\"parents\": [\"world\"], \"space_type\": \"parent\"}"
AttrsJson == "{\"tx\": \"locked\"}"
ShapeJson == "[{\"cvs\": []}]"

\* the strings a parent_space_data attribute is set to from outside the Rig
ParentSpaceInputs == {"", BadJson, ListJson, NoParentsJson, SpacesJson}

\* json.loads: ok is FALSE where it raises ValueError; has_get tells a JSON
\* object from any other JSON value
json_loads(s) ==
    CASE s = ListJson      -> [ok |-> TRUE, has_get |-> FALSE, parents |-> <<>>,
                               space_type |-> "", state |-> ""]
      [] s = ShapeJson     -> [ok |-> TRUE, has_get |-> FALSE, parents |-> <<>>,
                               space_type |-> "", state |-> ""]
      [] s = NoParentsJson -> [ok |-> TRUE, has_get |-> TRUE, parents |-> <<>>,
                               space_type |-> "", state |-> ""]
      [] s = SpacesJson    -> [ok |-> TRUE, has_get |-> TRUE, parents |-> <<"world">>,
                               space_type |-> "parent", state |-> ""]
      [] s = AttrsJson     -> [ok |-> TRUE, has_get |-> TRUE, parents |-> <<>>,
                               space_type |-> "", state |-> "tx:locked"]
      [] OTHER             -> [ok |-> FALSE, has_get |-> FALSE, parents |-> <<>>,
                               space_type |-> "", state |-> ""]

\* json.dumps of the two values unbuild serializes
json_dumps(value) ==
    CASE value = "tx:locked" -> AttrsJson
      [] value = "cvs"       -> ShapeJson
      [] OTHER               -> "null"

\* icarus.attributes.get_attributes_state / shapeshifter.get_shape_data
get_attributes_state(m) == "tx:locked"
get_shape_data(m) == "cvs"

(* --------------------------- call bookkeeping -------------------------- *)

NoEntry == [stage |-> "none", nodes |-> {}, tagged |-> {}, was_built |-> FALSE]

\* the last top-level call: which one, on what, and how it ended
CallRecord(op, arg, outcome) == [op |-> op, arg |-> arg, outcome |-> outcome]

Event(name, m) == <<name, m>>

(* ------------------------------ undoable ------------------------------- *)

\* Faulty undoable_methods: unbuild is left undecorated.
undoable_methods_but_unbuild == {"add_module", "delete_module", "build", "reset_pose"}

\* the methods of Rig that carry the @undoable decorator
undoable_methods == {"add_module", "delete_module", "build", "unbuild", "reset_pose"}

\* icarus.utils.undo.undoable: the events of a decorated method run inside
\* an undo chunk that is closed however the method ends
undoable(method, events) ==
    IF method \in undoable_methods
    THEN <<Event("openChunk", 0)>> \o events \o <<Event("closeChunk", 0)>>
    ELSE events

\* the collaborator calls that change the scene
SceneCommands ==
    {"createNode", "new_module", "update", "delete", "_build", "set_attributes_state",
     "hide_placement", "create_space_switching", "tag_nodes_for_unbuild",
     "is_built.set", "module.is_built.set", "is_initialized.set", "reset_node",
     "setAttr shape_data", "setAttr attributes_state", "show_placement",
     "disconnectAttr", "hide_skeleton", "publish"}

\* the host's undo queue after the events given, starting from an empty
\* queue: a command outside any chunk is an entry of its own, the commands
\* inside a chunk (chunks nested in it included) are one entry, made when
\* the outermost chunk closes.
\* q = [entries |-> the entries, depth |-> open chunks, chunk |-> commands of
\* the open chunk]
undo_queue(events) ==
    LET F[i \in 0..Len(events)] ==
            IF i = 0 THEN [entries |-> <<>>, depth |-> 0, chunk |-> <<>>]
            ELSE LET q == F[i - 1]
                     e == events[i]
                 IN  IF e[1] = "openChunk" THEN [q EXCEPT !.depth = @ + 1]
                     ELSE IF e[1] = "closeChunk"
                     THEN IF q.depth = 1
                          THEN [entries |-> Append(q.entries, q.chunk),
                                depth |-> 0, chunk |-> <<>>]
                          ELSE [q EXCEPT !.depth = @ - 1]
                     ELSE IF e[1] \notin SceneCommands THEN q
                     ELSE IF q.depth = 0
                     THEN [q EXCEPT !.entries = Append(@, <<e>>)]
                     ELSE [q EXCEPT !.chunk = Append(@, e)]
    IN  F[Len(events)]

(* ------------------------------- Rig() --------------------------------- *)

\* icarus.config.default_modules, as the parent_joint each is made with: a
\* spine attached to nothing and an arm attached to the spine's first joint
default_modules == <<None, <<"joint", 1, 1>> >>

\* the state Rig.__init__ leaves in an empty scene
RigInit ==
    /\ modules = [i \in 1..Len(default_modules) |-> i]
    /\ parent_joint = [m \in ModuleNames |->
                          IF m <= Len(default_modules) THEN default_modules[m] ELSE None]
    /\ nodes = basic_hierarchy
                 \cup UNION {authoring_nodes(m) : m \in 1..Len(default_modules)}
    /\ tagged = {}
    /\ driven = {}
    /\ is_built = FALSE
    /\ is_initialized = TRUE
    /\ skeleton_visibility = TRUE
    /\ module_is_built = [m \in ModuleNames |-> FALSE]
    /\ visibility = [m \in ModuleNames |-> TRUE]
    /\ attributes_state = [m \in ModuleNames |-> ""]
    /\ shape_data = [m \in ModuleNames |-> ""]
    /\ parent_space_data = [m \in ModuleNames |-> ""]
    /\ call = CallRecord("Rig", 0, "ok")
    /\ log = <<>>
    /\ build_entry = NoEntry

(* ----------------------------- add_module ------------------------------ *)

\* the part of the scene a module constructor touches
module_scene ==
    [modules |-> modules, parent_joint |-> parent_joint, nodes |-> nodes,
     module_is_built |-> module_is_built, visibility |-> visibility,
     attributes_state |-> attributes_state, shape_data |-> shape_data,
     parent_space_data |-> parent_space_data]

\* the constructor of a module implementation, on the scene st: a new module
\* node, placement group, controller and deform joints, attached to the
\* parent_joint given
with_new_module(st, m, pj) ==
    [modules |-> Append(st.modules, m),
     parent_joint |-> [st.parent_joint EXCEPT ![m] = pj],
     nodes |-> st.nodes \cup authoring_nodes(m),
     module_is_built |-> [st.module_is_built EXCEPT ![m] = FALSE],
     visibility |-> [st.visibility EXCEPT ![m] = TRUE],
     attributes_state |-> [st.attributes_state EXCEPT ![m] = ""],
     shape_data |-> [st.shape_data EXCEPT ![m] = ""],
     parent_space_data |-> [st.parent_space_data EXCEPT ![m] = ""]]

\* the scene becomes st
set_module_scene(st) ==
    /\ modules' = st.modules
    /\ parent_joint' = st.parent_joint
    /\ nodes' = st.nodes
    /\ module_is_built' = st.module_is_built
    /\ visibility' = st.visibility
    /\ attributes_state' = st.attributes_state
    /\ shape_data' = st.shape_data
    /\ parent_space_data' = st.parent_space_data

new_module(m, pj) == set_module_scene(with_new_module(module_scene, m, pj))

\* the node name a new module gets: the first one free
free_module_name(listed) ==
    CHOOSE m \in ModuleNames :
        ~InList(m, listed) /\ \A k \in 1..(m - 1) : InList(k, listed)

\* Faulty structure_locked: the rig is never taken to be built.
structure_locked_never == FALSE

\* self.is_built.get() as add_module and delete_module test it
structure_locked == is_built

\* Faulty valid_module_type: the registry is not consulted.
valid_module_type_any(module_type) == TRUE

\* `module_type in all_rig_modules`
valid_module_type(module_type) == module_type \in all_rig_modules

\* Rig.add_module(module_type, parent_joint=pj)
add_module(module_type, pj) ==
    /\ build_entry' = NoEntry
    /\ UNCHANGED facadeVars
    /\ IF structure_locked
       THEN /\ call' = CallRecord("add_module", 0, "RuntimeError")
            /\ log' = undoable("add_module", <<>>)
            /\ UNCHANGED <<modules, parent_joint, nodes, tagged, driven, is_built,
                           module_is_built, visibility, attributes_state,
                           shape_data, parent_space_data>>
       ELSE IF ~valid_module_type(module_type)
       THEN /\ call' = CallRecord("add_module", 0, "ValueError")
            /\ log' = undoable("add_module", <<>>)
            /\ UNCHANGED <<modules, parent_joint, nodes, tagged, driven, is_built,
                           module_is_built, visibility, attributes_state,
                           shape_data, parent_space_data>>
       ELSE /\ \E m \in ModuleNames :
                  /\ ~InList(m, modules)
                  /\ \A k \in 1..(m - 1) : InList(k, modules)
                  /\ new_module(m, pj)
                  /\ call' = CallRecord("add_module", m, "ok")
                  /\ log' = undoable("add_module", <<Event("new_module", m)>>)
            /\ UNCHANGED <<tagged, driven, is_built>>

AddModule ==
    \E module_type \in all_rig_modules \cup {"bogus"} :
        \E pj \in {None} \cup {n \in nodes : IsJoint(n)} :
            add_module(module_type, pj)

(* ---------------------------- delete_module ---------------------------- *)

\* Rig.get_module: the module of that name, 0 (None) when there is none
get_module(module_node_name) ==
    IF InList(module_node_name, rig_modules) THEN module_node_name ELSE 0

\* Faulty reparent_dependants: dependants stay attached to the joints about
\* to be deleted.
reparent_dependants_skipped(order, i, module_to_del, st) == st

\* the loop of delete_module over rig_modules, from position i on: a module
\* attached to one of the deleted module's deform joints is attached to the
\* deleted module's parent joint (read from the scene at that moment) and
\* updated.  st = [parent_joint, log]
RECURSIVE reparent_dependants(_, _, _, _)
reparent_dependants(order, i, module_to_del, st) ==
    IF i > Len(order) THEN st
    ELSE LET module == order[i]
             new_parent_joint == st.parent_joint[module_to_del]
         IN  reparent_dependants(
                 order, i + 1, module_to_del,
                 IF st.parent_joint[module] \in deform_joints(module_to_del)
                 THEN [parent_joint |->
                           [st.parent_joint EXCEPT ![module] = new_parent_joint],
                       log |-> Append(st.log, Event("update", module))]
                 ELSE st)

\* Rig.delete_module(module_node_name)
delete_module(module_node_name) ==
    /\ build_entry' = NoEntry
    /\ UNCHANGED facadeVars
    /\ IF structure_locked
       THEN /\ log' = undoable("delete_module", <<Event("logger.error", 0)>>)
            /\ call' = CallRecord("delete_module", module_node_name, "refused")
            /\ UNCHANGED <<modules, parent_joint, nodes, tagged, driven, is_built,
                           module_is_built, visibility, attributes_state,
                           shape_data, parent_space_data>>
       ELSE IF get_module(module_node_name) = 0
       THEN \* None.deform_joints
            /\ log' = undoable("delete_module", <<Event("logger.warning", 0)>>)
            /\ call' = CallRecord("delete_module", module_node_name, "AttributeError")
            /\ UNCHANGED <<modules, parent_joint, nodes, tagged, driven, is_built,
                           module_is_built, visibility, attributes_state,
                           shape_data, parent_space_data>>
       ELSE LET module_to_del == get_module(module_node_name)
                repaired == reparent_dependants(
                                rig_modules, 1, module_to_del,
                                [parent_joint |-> parent_joint, log |-> <<>>])
            IN  /\ log' = undoable("delete_module",
                                    Append(repaired.log, Event("delete", module_to_del)))
                /\ parent_joint' = [repaired.parent_joint EXCEPT ![module_to_del] = None]
                /\ nodes' = (nodes \ module_subtree(module_to_del, nodes))
                               \ deform_joints(module_to_del)
                /\ tagged' = tagged \ module_subtree(module_to_del, nodes)
                /\ driven' = driven \ {module_to_del}
                /\ modules' = ListRemove(modules, module_to_del)
                /\ module_is_built' = [module_is_built EXCEPT ![module_to_del] = FALSE]
                /\ visibility' = [visibility EXCEPT ![module_to_del] = TRUE]
                /\ attributes_state' = [attributes_state EXCEPT ![module_to_del] = ""]
                /\ shape_data' = [shape_data EXCEPT ![module_to_del] = ""]
                /\ parent_space_data' = [parent_space_data EXCEPT ![module_to_del] = ""]
                /\ call' = CallRecord("delete_module", module_to_del, "ok")
                /\ UNCHANGED is_built

DeleteModule == \E module_node_name \in ModuleNames : delete_module(module_node_name)

(* -------------------------------- build -------------------------------- *)

\* Module._build: guarded by the module's own is_built flag; makes the
\* module's rig nodes, drives its deform joints, sets Module.is_built
module_build(m, st) ==
    IF st.module_is_built[m] THEN st
    ELSE [st EXCEPT !.nodes = @ \cup {FreshNode("build", m, st.nodes)},
                    !.driven = @ \cup {m},
                    !.module_is_built = [@ EXCEPT ![m] = TRUE]]

\* Faulty build_events: the saved attributes state is put back before the
\* module is built.
build_events_state_first(m) ==
    (IF attributes_state[m] # ""
     THEN <<Event("set_attributes_state", m)>> ELSE <<>>)
      \o <<Event("_build", m), Event("hide_placement", m)>>

\* the events of one turn of the first loop of build
build_events(m) ==
    <<Event("_build", m)>>
      \o (IF attributes_state[m] # ""
          THEN <<Event("set_attributes_state", m)>> ELSE <<>>)
      \o <<Event("hide_placement", m)>>

\* Faulty build_pass: the modules are built in the order they are popped,
\* without sort_parent_module.
build_pass_unsorted(order, i, st) ==
    LET listed == [k \in 1..Len(modules) |-> modules[Len(modules) + 1 - k]]
        F[k \in 0..Len(listed)] ==
            IF k = 0 THEN st
            ELSE LET m == listed[k]
                     built == module_build(m, F[k - 1])
                 IN  [built EXCEPT !.visibility = [@ EXCEPT ![m] = FALSE],
                                   !.log = @ \o build_events(m)]
    IN  F[Len(listed)]

\* the first loop of build, from position i of rig_modules on: build the
\* module, put back the saved attributes state, hide the placement group
RECURSIVE build_pass(_, _, _)
build_pass(order, i, st) ==
    IF i > Len(order) THEN st
    ELSE LET module == order[i]
             built == module_build(module, st)
         IN  build_pass(order, i + 1,
                 [built EXCEPT !.visibility = [@ EXCEPT ![module] = FALSE],
                               !.log = @ \o build_events(module)])

\* icarus.dag.create_space_switching(ctl, parents, space_type): makes the
\* switching node of the controller
create_space_switching(ctl, st) ==
    [st EXCEPT !.nodes = @ \cup {FreshNode("space", ctl, st.nodes)},
               !.log = Append(@, Event("create_space_switching", ctl))]

\* the second loop of build, from position i of rig_modules on: the
\* controller's parent_space_data is parsed and its space switching made
RECURSIVE space_pass(_, _, _)
space_pass(order, i, st) ==
    IF i > Len(order) THEN st
    ELSE LET ctl == order[i]
             parent_spaces == parent_space_data[ctl]
             spaces == json_loads(parent_spaces)
         IN  IF parent_spaces = "" THEN space_pass(order, i + 1, st)
             ELSE IF ~spaces.ok THEN [st EXCEPT !.raised = "ValueError"]
             ELSE IF ~spaces.has_get THEN space_pass(order, i + 1, st)
             ELSE IF spaces.parents # <<>>
             THEN space_pass(order, i + 1, create_space_switching(ctl, st))
             ELSE space_pass(order, i + 1, st)

\* Rig._tag_nodes_for_unbuild: addAttr is_build_node on each node given
tag_nodes_for_unbuild(marked, new_nodes) == marked \cup new_nodes

\* the host can name every node this build would make
BuildHasNames ==
    {m \in ModuleNames :
        /\ InList(m, modules)
        /\ ~((module_is_built[m] \/ HasFreshNode("build", m, nodes))
               /\ HasFreshNode("space", m, nodes))} = {}

\* Rig.build()
build ==
    /\ BuildHasNames
    /\ LET nodes_before_build == nodes
           first == build_pass(
                        rig_modules, 1,
                        [nodes |-> nodes, driven |-> driven,
                         module_is_built |-> module_is_built,
                         visibility |-> visibility,
                         log |-> <<Event("run_scripts:pre_build", 0)>>,
                         raised |-> ""])
           nodes_after_build == first.nodes
           new_nodes == nodes_after_build \ nodes_before_build
           second == space_pass(rig_modules, 1, first)
       IN  /\ driven' = second.driven
           /\ module_is_built' = second.module_is_built
           /\ visibility' = second.visibility
           /\ nodes' = second.nodes
           /\ IF second.raised # ""
              THEN /\ log' = undoable("build", second.log)
                   /\ call' = CallRecord("build", 0, second.raised)
                   /\ build_entry' = NoEntry
                   /\ UNCHANGED <<tagged, is_built>>
              ELSE /\ log' = undoable("build",
                                       second.log \o <<Event("run_scripts:post_build", 0),
                                                       Event("tag_nodes_for_unbuild", 0),
                                                       Event("is_built.set", 0)>>)
                   /\ tagged' = tag_nodes_for_unbuild(tagged, new_nodes)
                   /\ is_built' = TRUE
                   /\ call' = CallRecord("build", 0, "ok")
                   /\ build_entry' = [stage |-> "built", nodes |-> nodes_before_build,
                                      tagged |-> tagged, was_built |-> is_built]
    /\ UNCHANGED <<modules, parent_joint, attributes_state, shape_data,
                   parent_space_data, facadeVars>>

(* ------------------------------- unbuild ------------------------------- *)

\* cmds.ls('*_ctl')
controls == {controller(m) : m \in {k \in ModuleNames : controller(k) \in nodes}}

\* Rig.skeleton: the descendants of skeleton_group
skeleton == {n \in nodes : IsJoint(n)}

\* the modules that own some joint of the skeleton
skeleton_modules == {n[2] : n \in skeleton}

\* Rig.reset_pose(): icarus.dag.reset_node on every control
reset_pose_events ==
    LET F[m \in 0..MaxModules] ==
            IF m = 0 THEN <<Event("reset_pose", 0)>>
            ELSE IF controller(m) \in controls
                 THEN Append(F[m - 1], Event("reset_node", m))
                 ELSE F[m - 1]
    IN  undoable("reset_pose", F[MaxModules])

\* the events of the last loop of unbuild
module_flag_events(order) ==
    [i \in 1..Len(order) |-> Event("module.is_built.set", order[i])]

\* the first loop of unbuild, from position i of rig_modules on; no_shape is
\* the set of controllers shapeshifter.get_shape_data raises on
RECURSIVE capture_pass(_, _, _, _)
capture_pass(order, i, no_shape, st) ==
    IF i > Len(order) THEN st
    ELSE LET ctl == order[i]
             shaped == IF ctl \in no_shape THEN st
                       ELSE [st EXCEPT
                                !.shape_data =
                                    [@ EXCEPT ![ctl] = json_dumps(get_shape_data(ctl))],
                                !.log = Append(@, Event("setAttr shape_data", ctl))]
         IN  capture_pass(order, i + 1, no_shape,
                 [shaped EXCEPT
                     !.attributes_state =
                         [@ EXCEPT ![ctl] = json_dumps(get_attributes_state(ctl))],
                     !.visibility = [@ EXCEPT ![ctl] = TRUE],
                     !.log = @ \o <<Event("setAttr attributes_state", ctl),
                                    Event("show_placement", ctl)>>])

\* Faulty teardown_events: the build nodes are deleted before the skeleton
\* is disconnected from them.
teardown_events_delete_first(order) ==
    <<Event("delete", 0), Event("disconnectAttr", 0)>>
      \o module_flag_events(order)
      \o <<Event("is_built.set", 0), Event("run_scripts:post_unbuild", 0)>>

\* what a completed unbuild does after the capture loop: the skeleton loop,
\* cmds.delete, the flags, the post_unbuild hook
teardown_events(order) ==
    <<Event("disconnectAttr", 0), Event("delete", 0)>>
      \o module_flag_events(order)
      \o <<Event("is_built.set", 0), Event("run_scripts:post_unbuild", 0)>>

\* the last loop of unbuild: module.is_built.set(False) for every module
reset_module_flags(order, flags) ==
    [m \in ModuleNames |-> IF InList(m, order) THEN FALSE ELSE flags[m]]

\* Faulty nodes_to_delete: nothing is handed to cmds.delete.
nodes_to_delete_none == {}

\* the nodes cmds.delete(self.build_nodes) is given
nodes_to_delete == build_nodes

\* Rig.unbuild(); no_shape: the controllers get_shape_data raises on
unbuild(no_shape) ==
    LET captured == capture_pass(
                        rig_modules, 1, no_shape,
                        [shape_data |-> shape_data,
                         attributes_state |-> attributes_state,
                         visibility |-> visibility,
                         log |-> <<Event("run_scripts:pre_unbuild", 0)>>
                                   \o reset_pose_events])
        doomed == nodes_to_delete
    IN  /\ shape_data' = captured.shape_data
        /\ attributes_state' = captured.attributes_state
        /\ visibility' = captured.visibility
        /\ IF skeleton = {}
           THEN \* reversed(None)
                /\ log' = undoable("unbuild", captured.log)
                /\ call' = CallRecord("unbuild", 0, "TypeError")
                /\ build_entry' = NoEntry
                /\ UNCHANGED <<nodes, tagged, driven, is_built, module_is_built>>
           ELSE IF skeleton_modules \ driven # {}
           THEN \* disconnectAttr('', attr) on the first joint that has no
                \* input; the joints before it in the listing are severed
                /\ \E severed \in SUBSET driven : driven' = driven \ severed
                /\ log' = undoable("unbuild",
                                    Append(captured.log, Event("disconnectAttr", 0)))
                /\ call' = CallRecord("unbuild", 0, "RuntimeError")
                /\ build_entry' = NoEntry
                /\ UNCHANGED <<nodes, tagged, is_built, module_is_built>>
           ELSE \/ \* cmds.delete([]) raising
                   /\ doomed = {}
                   /\ driven' = driven \ skeleton_modules
                   /\ log' = undoable("unbuild",
                                       captured.log \o <<Event("disconnectAttr", 0),
                                                         Event("delete", 0)>>)
                   /\ call' = CallRecord("unbuild", 0, "RuntimeError")
                   /\ build_entry' = NoEntry
                   /\ UNCHANGED <<nodes, tagged, is_built, module_is_built>>
                \/ /\ driven' = driven \ skeleton_modules
                   /\ nodes' = nodes \ doomed
                   /\ tagged' = tagged \ doomed
                   /\ module_is_built' = reset_module_flags(rig_modules, module_is_built)
                   /\ is_built' = FALSE
                   /\ log' = undoable("unbuild",
                                       captured.log \o teardown_events(rig_modules))
                   /\ call' = CallRecord("unbuild", 0, "ok")
                   /\ build_entry' = IF build_entry.stage = "built"
                                     THEN [build_entry EXCEPT !.stage = "unbuilt"]
                                     ELSE NoEntry
        /\ UNCHANGED <<modules, parent_joint, parent_space_data, facadeVars>>

Unbuild ==
    \E no_shape \in SUBSET {m \in ModuleNames : InList(m, modules)} :
        unbuild(no_shape)

(* ------------------- edits made from outside the Rig ------------------- *)

\* a parent_space_data attribute is set on a controller (the parent spaces
\* window, or anything else that can set a string attribute)
set_parent_space_data(m, s) ==
    /\ InList(m, modules)
    /\ parent_space_data[m] # s
    /\ parent_space_data' = [parent_space_data EXCEPT ![m] = s]
    /\ call' = CallRecord("set_parent_space_data", m, "ok")
    /\ log' = <<>>
    /\ UNCHANGED <<modules, parent_joint, nodes, tagged, driven, is_built,
                   module_is_built, visibility, attributes_state, shape_data,
                   build_entry, facadeVars>>

SetParentSpaceData ==
    \E m \in ModuleNames : \E s \in ParentSpaceInputs : set_parent_space_data(m, s)

(* ------------------------ publish and reset_pose ----------------------- *)

\* Faulty publish_events: publish puts the saved attributes state back on
\* the controllers, as build does.
publish_events_applying(order) ==
    [i \in 1..Len(order) |-> Event("set_attributes_state", order[i])]

\* Faulty publish_events: the modules are published in the order they are
\* popped from the listing, without sort_parent_module.
publish_events_unsorted(order) ==
    [i \in 1..Len(modules) |-> Event("publish", modules[Len(modules) + 1 - i])]

\* the loop of publish over rig_modules
publish_events(order) == [i \in 1..Len(order) |-> Event("publish", order[i])]

\* Rig.publish()
publish ==
    /\ skeleton_visibility' = FALSE
    /\ log' = undoable("publish",
                        <<Event("run_scripts:pre_publish", 0), Event("hide_skeleton", 0)>>
                          \o publish_events(rig_modules)
                          \o <<Event("run_scripts:post_publish", 0)>>)
    /\ call' = CallRecord("publish", 0, "ok")
    /\ build_entry' = NoEntry
    /\ UNCHANGED <<modules, parent_joint, nodes, tagged, driven, is_built,
                   module_is_built, visibility, attributes_state, shape_data,
                   parent_space_data, is_initialized>>

\* Rig.reset_pose()
reset_pose ==
    /\ log' = reset_pose_events
    /\ call' = CallRecord("reset_pose", 0, "ok")
    /\ build_entry' = NoEntry
    /\ UNCHANGED <<modules, parent_joint, nodes, tagged, driven, is_built,
                   module_is_built, visibility, attributes_state, shape_data,
                   parent_space_data, facadeVars>>

(* ------------------------------- Rig() --------------------------------- *)

\* the node IcarusNode.__init__('RIG') wraps, made when it is not there
rig_node == <<"RIG", 0, 0>>

\* cmds.createNode('transform', name=name): the host adds a number to a name
\* that is taken
createNode(name, scene) ==
    IF <<name, 0, 0>> \notin scene THEN <<name, 0, 0>> ELSE FreshNode(name, 0, scene)

\* one `if not cmds.objExists(name)` block of _create_basic_hierarchy
create_group(name, st) ==
    IF <<name, 0, 0>> \in st.nodes THEN st
    ELSE [st EXCEPT !.nodes = @ \cup {createNode(name, @)},
                    !.log = Append(@, Event("createNode", 0))]

\* Rig._create_basic_hierarchy
create_basic_hierarchy(st) ==
    create_group("SKELETON", create_group("EXTRAS", create_group("MODULES", st)))

\* Rig._add_default_modules, from entry i of default_modules on; the rig is
\* not built when this runs, and every default type is in the registry
RECURSIVE add_default_modules(_, _)
add_default_modules(i, st) ==
    IF i > Len(default_modules) THEN st
    ELSE LET m == free_module_name(st.scene.modules)
         IN  add_default_modules(
                 i + 1,
                 [scene |-> with_new_module(st.scene, m, default_modules[i]),
                  log |-> st.log \o undoable("add_module", <<Event("new_module", m)>>)])

\* Faulty needs_initialization: is_initialized is not looked at.
needs_initialization_always == TRUE

\* `not self.is_initialized.get()`
needs_initialization == ~is_initialized

\* Rig()
Rig ==
    /\ call' = CallRecord("Rig", 0, "ok")
    /\ build_entry' = NoEntry
    /\ IF needs_initialization
       THEN /\ Len(modules) + Len(default_modules) <= MaxModules
            /\ ~is_built
            /\ LET hierarchy == create_basic_hierarchy(
                                    [nodes |-> nodes \cup {rig_node}, log |-> <<>>])
                   added == add_default_modules(
                                1, [scene |-> [module_scene EXCEPT
                                                  !.nodes = hierarchy.nodes],
                                    log |-> hierarchy.log])
               IN  /\ set_module_scene(added.scene)
                   /\ log' = Append(added.log, Event("is_initialized.set", 0))
            /\ is_initialized' = TRUE
            /\ UNCHANGED <<tagged, driven, is_built, skeleton_visibility>>
       ELSE /\ log' = <<>>
            /\ UNCHANGED <<modules, parent_joint, nodes, tagged, driven, is_built,
                           module_is_built, visibility, attributes_state, shape_data,
                           parent_space_data, facadeVars>>

(* --------------------------------- Spec -------------------------------- *)

Init ==
    /\ RigInit
    /\ sort_parent = [m \in 1..SortN |-> 0]
    /\ sort_input = <<>>
    /\ sort_result = <<>>
    /\ sort_outcome = "unused"
    /\ sort_work = <<>>
    /\ sort_stack = <<>>
    /\ calls = 0

\* the lifecycle of the rig Rig() makes
Next ==
    \/ build /\ UNCHANGED <<sortVars, calls>>
    \/ Unbuild /\ UNCHANGED <<sortVars, calls>>
    \/ SetParentSpaceData /\ UNCHANGED <<sortVars, calls>>

Spec == Init /\ [][Next]_vars

\* editing the module set of that rig, before and after a build
EditNext ==
    \/ AddModule /\ UNCHANGED <<sortVars, calls>>
    \/ DeleteModule /\ UNCHANGED <<sortVars, calls>>
    \/ build /\ UNCHANGED <<sortVars, calls>>

EditSpec == Init /\ [][EditNext]_vars

(* ----------------------------- FacadeSpec ------------------------------ *)

\* a scene in which Rig() has never run
SceneInit ==
    /\ modules = <<>>
    /\ parent_joint = [m \in ModuleNames |-> None]
    /\ nodes = {}
    /\ tagged = {}
    /\ driven = {}
    /\ is_built = FALSE
    /\ is_initialized = FALSE
    /\ skeleton_visibility = TRUE
    /\ module_is_built = [m \in ModuleNames |-> FALSE]
    /\ visibility = [m \in ModuleNames |-> TRUE]
    /\ attributes_state = [m \in ModuleNames |-> ""]
    /\ shape_data = [m \in ModuleNames |-> ""]
    /\ parent_space_data = [m \in ModuleNames |-> ""]
    /\ call = CallRecord("none", 0, "ok")
    /\ log = <<>>
    /\ build_entry = NoEntry
    /\ sort_parent = [m \in 1..SortN |-> 0]
    /\ sort_input = <<>>
    /\ sort_result = <<>>
    /\ sort_outcome = "unused"
    /\ sort_work = <<>>
    /\ sort_stack = <<>>
    /\ calls = 0

\* every call of the Rig facade; the methods need the object Rig() returns
FacadeNext ==
    /\ calls < MaxCalls
    /\ calls' = calls + 1
    /\ UNCHANGED sortVars
    /\ \/ Rig
       \/ is_initialized /\ AddModule
       \/ is_initialized /\ DeleteModule
       \/ is_initialized /\ build
       \/ is_initialized /\ Unbuild
       \/ is_initialized /\ publish
       \/ is_initialized /\ reset_pose
       \/ is_initialized /\ SetParentSpaceData

FacadeSpec == SceneInit /\ [][FacadeNext]_vars

(* ------------------------------ SortSpec ------------------------------- *)

SortIds == 1..SortN

\* all sequences without repetition over the subsets of S
RECURSIVE ListsOver(_)
ListsOver(S) ==
    {<<>>} \cup UNION {{<<x>> \o l : l \in ListsOver(S \ {x})} : x \in S}

SortInit ==
    /\ RigInit
    /\ sort_parent \in [SortIds -> 0..SortN]
    /\ sort_input \in ListsOver(SortIds)
    /\ sort_result = <<>>
    /\ sort_outcome = "pending"
    /\ sort_work = <<>>
    /\ sort_stack = <<>>
    /\ calls = 0

\* one evaluation of the rig_modules property
SortRun ==
    /\ sort_outcome = "pending"
    /\ sort_result' = rig_modules_of(sort_input, sort_parent)
    /\ sort_outcome' = "returned"
    /\ UNCHANGED <<sort_parent, sort_input, sort_work, sort_stack>>
    /\ UNCHANGED <<rigVars, calls>>

SortNext == SortRun

SortSpec == SortInit /\ [][SortNext]_vars

(* ---------------------------- SortStepSpec ----------------------------- *)

\* The sorter one statement at a time.  A frame of sort_parent_module is
\* <<module, at>>: at "test" it is about to test `parent_module in modules`,
\* at "append" its recursive call has returned.

top_frame == sort_stack[Len(sort_stack)]

\* Faulty call_sort_parent_module: the parent taken out of the list is not
\* recursed into.
call_sort_parent_module_skipped(stack, module) == stack

\* self.sort_parent_module(module, modules, sorted_modules): a new frame
call_sort_parent_module(stack, module) == Append(stack, <<module, "test">>)

SortStepInit ==
    /\ RigInit
    /\ sort_parent \in [SortIds -> 0..SortN]
    /\ sort_input \in ListsOver(SortIds)
    /\ sort_work = sort_input
    /\ sort_stack = <<>>
    /\ sort_result = <<>>
    /\ sort_outcome = "pending"
    /\ calls = 0

\* while modules: module = modules.pop(); self.sort_parent_module(...)
SortPop ==
    /\ sort_outcome = "pending"
    /\ sort_stack = <<>>
    /\ sort_work # <<>>
    /\ sort_work' = ListFront(sort_work)
    /\ sort_stack' = call_sort_parent_module(sort_stack, ListLast(sort_work))
    /\ UNCHANGED <<sort_parent, sort_input, sort_result, sort_outcome>>
    /\ UNCHANGED <<rigVars, calls>>

\* if parent_module in modules: modules.remove(parent_module); recurse
SortDescend ==
    /\ sort_stack # <<>>
    /\ top_frame[2] = "test"
    /\ LET parent_module == sort_parent[top_frame[1]]
       IN  /\ InList(parent_module, sort_work)
           /\ sort_work' = ListRemove(sort_work, parent_module)
           /\ sort_stack' = call_sort_parent_module(
                                [sort_stack EXCEPT ![Len(sort_stack)] =
                                     <<top_frame[1], "append">>],
                                parent_module)
    /\ UNCHANGED <<sort_parent, sort_input, sort_result, sort_outcome>>
    /\ UNCHANGED <<rigVars, calls>>

\* sorted_modules.append(module), and the frame returns
SortAppend ==
    /\ sort_stack # <<>>
    /\ \/ top_frame[2] = "append"
       \/ top_frame[2] = "test" /\ ~InList(sort_parent[top_frame[1]], sort_work)
    /\ sort_result' = Append(sort_result, top_frame[1])
    /\ sort_stack' = ListFront(sort_stack)
    /\ UNCHANGED <<sort_parent, sort_input, sort_work, sort_outcome>>
    /\ UNCHANGED <<rigVars, calls>>

\* return sorted_modules
SortReturn ==
    /\ sort_outcome = "pending"
    /\ sort_stack = <<>>
    /\ sort_work = <<>>
    /\ sort_outcome' = "returned"
    /\ UNCHANGED <<sort_parent, sort_input, sort_result, sort_work, sort_stack>>
    /\ UNCHANGED <<rigVars, calls>>

SortStepNext == SortPop \/ SortDescend \/ SortAppend \/ SortReturn

\* the interpreter runs the next statement of a call that has one
SortStepSpec == SortStepInit /\ [][SortStepNext]_vars /\ WF_vars(SortStepNext)

(* ------------------------------- claims -------------------------------- *)

\* the modules a parent chain starting at m passes through, m excluded
\* unless the chain comes back to it
RECURSIVE ChainFrom(_, _, _)
ChainFrom(m, par, steps) ==
    IF steps = 0 \/ par[m] = 0 THEN {}
    ELSE {par[m]} \cup ChainFrom(par[m], par, steps - 1)

\* the parent_module relation has a cycle among the modules of S
HasCycle(par, S) ==
    \E m \in S : m \in ChainFrom(m, [k \in DOMAIN par |-> IF par[k] \in S /\ k \in S
                                                          THEN par[k] ELSE 0],
                                Cardinality(DOMAIN par))

ListSet(lst) == {lst[i] : i \in 1..Len(lst)}

Before(x, y, lst) == InList(x, lst) /\ InList(y, lst) /\ IndexOf(x, lst) < IndexOf(y, lst)

\* C1: when a completed build() of an unbuilt rig is followed by a completed
\* unbuild(), the scene's node set equals the node set found when build()
\* was entered.
RoundTripRestoresNodes ==
    (build_entry.stage = "unbuilt" /\ ~build_entry.was_built) =>
        nodes = build_entry.nodes

\* C2: for an acyclic parent_module graph the sequence rig_modules returns
\* has every module strictly after its parent module, whenever the parent is
\* one of the rig's modules.
ParentsSortedFirst ==
    (sort_outcome = "returned" /\ ~HasCycle(sort_parent, SortIds)) =>
        \A m \in ListSet(sort_input) :
            sort_parent[m] \in ListSet(sort_input) =>
                Before(sort_parent[m], m, sort_result)

\* C2 witness: the chain A <- B <- C listed as (C, A, B) comes back as (A, B, C).
ParentsSortedFirstWitness ==
    /\ sort_outcome = "returned"
    /\ sort_parent = <<0, 1, 2>>
    /\ sort_input = <<3, 1, 2>>
    /\ sort_result = <<1, 2, 3>>

\* C3: when the parent_module relation over the rig's modules has a cycle,
\* rig_modules ends with a cycle-detected error and returns no sequence.
CycleReported ==
    (sort_outcome # "pending" /\ HasCycle(sort_parent, ListSet(sort_input))) =>
        sort_outcome = "cycle_error"

\* C4: on a built rig add_module and delete_module are refused: modules,
\* parent joints and nodes stay as they were, add_module raises and
\* delete_module logs an error and returns.
BuiltRigRefusesEdits ==
    [][(is_built /\ call'.op \in {"add_module", "delete_module"}) =>
          /\ modules' = modules
          /\ parent_joint' = parent_joint
          /\ nodes' = nodes
          /\ call'.op = "add_module" => call'.outcome = "RuntimeError"
          /\ call'.op = "delete_module" =>
                 /\ call'.outcome = "refused"
                 /\ log' = undoable("delete_module", <<Event("logger.error", 0)>>)]_vars

\* C4 witness: add_module has raised on a built rig.
BuiltRigRefusesEditsWitness ==
    /\ is_built
    /\ call.op = "add_module"
    /\ call.outcome = "RuntimeError"
    /\ Len(modules) < MaxModules

\* no module is attached to a joint that is not in the scene
NoDanglingParentJoint ==
    \A m \in ListSet(modules) : parent_joint[m] = None \/ parent_joint[m] \in nodes

\* C5: delete_module(B) on an unbuilt rig leaves every remaining module that
\* was attached to one of B's deform joints attached to B's former parent
\* joint and every other module attached as before; after any add_module or
\* delete_module no module is attached to a deleted joint.
DeleteRepairsParentJoints ==
    [][/\ NoDanglingParentJoint'
       /\ (call'.op = "delete_module" /\ call'.outcome = "ok") =>
              \A m \in ListSet(modules') :
                  parent_joint'[m] =
                      IF parent_joint[m] \in deform_joints(call'.arg)
                      THEN parent_joint[call'.arg]
                      ELSE parent_joint[m]]_vars

\* C5 witness: a module has been moved from a deleted module's joint to that
\* module's own parent joint, which is a joint of a third module.
DeleteRepairsParentJointsWitness ==
    /\ call.op = "delete_module"
    /\ call.outcome = "ok"
    /\ \E m \in ListSet(modules) :
          /\ InList(Event("update", m), log)
          /\ parent_joint[m] # None
          /\ parent_joint[m] \in nodes

\* C6: when build() returns, every node made during the call carries
\* is_build_node and no node that was there before has gained it.
BuildTagsEveryNewNode ==
    (call.op = "build" /\ call.outcome = "ok") =>
        /\ (nodes \ build_entry.nodes) \subseteq tagged
        /\ (tagged \cap build_entry.nodes) \subseteq build_entry.tagged

HasSpaces(m) ==
    LET spaces == json_loads(parent_space_data[m])
    IN  spaces.ok /\ spaces.has_get /\ spaces.parents # <<>>

\* C7: with a controller whose parent_space_data does not parse, build()
\* still makes the space switching of every controller that has valid
\* data, tags the nodes of the build and ends with is_built true.
BadSpacesDoNotAbortBuild ==
    (call.op = "build" /\ \E m \in ListSet(modules) : parent_space_data[m] = BadJson) =>
        /\ call.outcome = "ok"
        /\ is_built
        /\ InList(Event("tag_nodes_for_unbuild", 0), log)
        /\ \A m \in ListSet(modules) :
               HasSpaces(m) => InList(Event("create_space_switching", m), log)

\* C8: unbuild() on a rig that is not built and has no is_build_node node
\* completes, deletes no node, leaves every is_built flag false and leaves
\* the persisted strings as the previous unbuild wrote them.
UnbuildTwiceIsHarmless ==
    [][(call'.op = "unbuild" /\ ~is_built /\ build_nodes = {}) =>
          /\ call'.outcome = "ok"
          /\ nodes' = nodes
          /\ ~is_built'
          /\ \A m \in ListSet(modules) : ~module_is_built'[m]
          /\ (call.op = "unbuild" /\ call.outcome = "ok") =>
                 /\ attributes_state' = attributes_state
                 /\ \A m \in ListSet(modules) :
                        shape_data[m] # "" => shape_data'[m] = shape_data[m]]_vars

\* the modules whose build routine the last call invoked, in order
BuildOrder == SelectSeq(log, LAMBDA e : e[1] = "_build")

\* C9: build() invokes the build routine of every module of the rig once,
\* a parent module's before its children's.
BuildsParentsFirst ==
    call.op = "build" =>
        /\ \A m \in ListSet(modules) : Occurrences(Event("_build", m), log) = 1
        /\ Len(BuildOrder) = Len(modules)
        /\ \A m \in ListSet(modules) :
               LET parent_module == parent_module_of(parent_joint)[m]
               IN  parent_module \in ListSet(modules) =>
                       Before(Event("_build", parent_module), Event("_build", m), log)

\* C9 witness: a chain of three modules has been built.
BuildsParentsFirstWitness ==
    /\ call.op = "build"
    /\ call.outcome = "ok"
    /\ Len(modules) = MaxModules
    /\ \E m \in ListSet(modules) :
          /\ parent_module_of(parent_joint)[m] # 0
          /\ parent_module_of(parent_joint)[parent_module_of(parent_joint)[m]] # 0

\* C10: when unbuild() completes on a built rig no node carries
\* is_build_node, every node that did not carry it is still there, the
\* rig's and every module's is_built are false and every placement group
\* is visible.
UnbuildLeavesAuthoringRig ==
    [][(call'.op = "unbuild" /\ call'.outcome = "ok" /\ is_built) =>
          /\ build_nodes' = {}
          /\ (nodes \ tagged) \subseteq nodes'
          /\ ~is_built'
          /\ \A m \in ListSet(modules') :
                 ~module_is_built'[m] /\ visibility'[m]]_vars

\* C10 witness: a build that made and tagged nodes has been undone.
UnbuildLeavesAuthoringRigWitness ==
    /\ call.op = "unbuild"
    /\ call.outcome = "ok"
    /\ build_entry.stage = "unbuilt"
    /\ ~build_entry.was_built
    /\ \A m \in ListSet(modules) : ~module_is_built[m] /\ visibility[m]
    /\ tagged = {}

\* sequence lst holds every element of the sequence of distinct elements src
\* once and nothing else
IsPermutation(lst, src) ==
    /\ Len(lst) = Len(src)
    /\ \A x \in ListSet(src) : Occurrences(x, lst) = 1

\* C18: on every parent_module graph, cyclic or not, rig_modules comes to
\* its return, and what it returns holds every module of the rig exactly
\* once; it is the sequence the recursive definition gives.
SorterReturnsPermutation ==
    /\ <>(sort_outcome = "returned")
    /\ [](sort_outcome = "returned" =>
             /\ IsPermutation(sort_result, sort_input)
             /\ sort_result = rig_modules_of(sort_input, sort_parent))

\* C18 witness: the sorter has returned all the modules of a graph in which
\* every module lies on a cycle.
SorterReturnsPermutationWitness ==
    /\ sort_outcome = "returned"
    /\ Len(sort_input) = SortN
    /\ \A m \in SortIds : m \in ChainFrom(m, sort_parent, SortN)
    /\ IsPermutation(sort_result, sort_input)

\* the scene commands among the events given, in order
SceneCommandsOf(events) == SelectSeq(events, LAMBDA e : e[1] \in SceneCommands)

\* C11: a call of add_module, delete_module, build, unbuild or reset_pose
\* leaves one entry on the undo queue, holding every scene command the call
\* made, those of the reset_pose inside unbuild included; no chunk is left
\* open.
OneUndoEntryPerCall ==
    call.op \in {"add_module", "delete_module", "build", "unbuild", "reset_pose"} =>
        LET q == undo_queue(log)
        IN  /\ q.depth = 0
            /\ Len(q.entries) = 1
            /\ q.entries[1] = SceneCommandsOf(log)

\* C11 witness: an unbuild() that reset controllers and deleted build nodes
\* has left one undo entry.
OneUndoEntryPerCallWitness ==
    /\ call.op = "unbuild"
    /\ call.outcome = "ok"
    /\ \E m \in ListSet(modules) : InList(Event("reset_node", m), log)
    /\ InList(Event("delete", 0), log)
    /\ Occurrences(Event("openChunk", 0), log) = 2
    /\ Len(undo_queue(log).entries) = 1

\* the events by which saved records are put back on a controller
ApplyingEvents == {"set_attributes_state", "create_space_switching"}

\* C12: build, publish, reset_pose, add_module and delete_module leave the
\* shape_data, attributes_state and parent_space_data of every controller
\* as they were, and no call but build applies attributes_state or
\* parent_space_data.
RecordsWrittenOnlyByUnbuild ==
    [][/\ call'.op \in {"build", "publish", "reset_pose", "add_module", "delete_module"} =>
              \A m \in ListSet(modules) \cap ListSet(modules') :
                  /\ shape_data'[m] = shape_data[m]
                  /\ attributes_state'[m] = attributes_state[m]
                  /\ parent_space_data'[m] = parent_space_data[m]
       /\ call'.op # "build" =>
              \A i \in 1..Len(log') : log'[i][1] \notin ApplyingEvents]_vars

\* C12 witness: build has put back the attributes state an unbuild saved,
\* and the records are still what that unbuild wrote.
RecordsWrittenOnlyByUnbuildWitness ==
    /\ call.op = "build"
    /\ call.outcome = "ok"
    /\ \E m \in ListSet(modules) :
          /\ InList(Event("set_attributes_state", m), log)
          /\ attributes_state[m] = AttrsJson
          /\ shape_data[m] = ShapeJson

\* C13: add_module on an unbuilt rig with a type that is not in the registry
\* raises ValueError and leaves the modules, their parent joints and the
\* scene's nodes as they were.
InvalidTypeAddsNothing ==
    [][(/\ ~is_built
        /\ \E module_type \in {"bogus"} \ all_rig_modules :
               \E pj \in {None} \cup {n \in nodes : IsJoint(n)} :
                   add_module(module_type, pj)) =>
          /\ call'.outcome = "ValueError"
          /\ modules' = modules
          /\ parent_joint' = parent_joint
          /\ nodes' = nodes]_vars

\* C13 witness: add_module has raised ValueError on an unbuilt rig that had
\* room for another module.
InvalidTypeAddsNothingWitness ==
    /\ call.op = "add_module"
    /\ call.outcome = "ValueError"
    /\ ~is_built
    /\ Len(modules) < MaxModules

\* C14: publish() runs the pre_publish hook, hides the skeleton group,
\* invokes the publish routine of every module once, a parent module's
\* before its children's, then runs the post_publish hook; rig.is_built,
\* every module's is_built and the nodes carrying is_build_node stay as
\* they were, on a built rig and on an unbuilt one.
PublishIsLifecycleNeutral ==
    [][call'.op = "publish" =>
          /\ Len(log') = Len(modules) + 3
          /\ log'[1] = Event("run_scripts:pre_publish", 0)
          /\ log'[2] = Event("hide_skeleton", 0)
          /\ log'[Len(log')] = Event("run_scripts:post_publish", 0)
          /\ ~skeleton_visibility'
          /\ \A m \in ListSet(modules) :
                 /\ Occurrences(Event("publish", m), log') = 1
                 /\ LET parent_module == parent_module_of(parent_joint)[m]
                    IN  parent_module \in ListSet(modules) =>
                            Before(Event("publish", parent_module),
                                   Event("publish", m), log')
          /\ is_built' = is_built
          /\ module_is_built' = module_is_built
          /\ build_nodes' = build_nodes
          /\ nodes' = nodes]_vars

\* C14 witness: a built rig with a parent and a child module and tagged
\* nodes has been published.
PublishIsLifecycleNeutralWitness ==
    /\ call.op = "publish"
    /\ is_built
    /\ build_nodes # {}
    /\ ~skeleton_visibility
    /\ \E m \in ListSet(modules) :
          /\ parent_module_of(parent_joint)[m] \in ListSet(modules)
          /\ module_is_built[m]

\* the events of the last call, the undo chunk marks left out
Steps == SelectSeq(log, LAMBDA e : e[1] \notin {"openChunk", "closeChunk"})

\* the step of unbuild (spec section 4.4) an event belongs to
UnbuildStep(e) ==
    CASE e[1] = "run_scripts:pre_unbuild" -> 1
      [] e[1] \in {"reset_pose", "reset_node"} -> 2
      [] e[1] \in {"setAttr shape_data", "setAttr attributes_state",
                   "show_placement"} -> 3
      [] e[1] = "disconnectAttr" -> 4
      [] e[1] = "delete" -> 5
      [] e[1] \in {"module.is_built.set", "is_built.set"} -> 6
      [] e[1] = "run_scripts:post_unbuild" -> 7
      [] OTHER -> 0

\* C15: the events of an unbuild() come in the order pre_unbuild hook, pose
\* reset, capture of every controller, severing of the skeleton's inputs,
\* deletion of the marked nodes, reset of the flags, post_unbuild hook; a
\* completed unbuild() has them all, the rig's flag after the modules'.
UnbuildStepsInOrder ==
    call.op = "unbuild" =>
        /\ \A i, j \in 1..Len(Steps) :
               i < j => (/\ UnbuildStep(Steps[i]) >= 1
                         /\ UnbuildStep(Steps[i]) <= UnbuildStep(Steps[j]))
        /\ call.outcome = "ok" =>
               /\ {UnbuildStep(Steps[i]) : i \in 1..Len(Steps)} = 1..7
               /\ \A m \in ListSet(modules) :
                      /\ InList(Event("reset_node", m), Steps)
                      /\ InList(Event("setAttr attributes_state", m), Steps)
                      /\ Before(Event("module.is_built.set", m),
                                Event("is_built.set", 0), Steps)

\* C15 witness: an unbuild() of a built rig has gone through all seven
\* steps and saved the shape of a controller.
UnbuildStepsInOrderWitness ==
    /\ call.op = "unbuild"
    /\ call.outcome = "ok"
    /\ build_entry.stage = "unbuilt"
    /\ \E m \in ListSet(modules) : InList(Event("setAttr shape_data", m), Steps)
    /\ Before(Event("disconnectAttr", 0), Event("delete", 0), Steps)

\* C16: in a build() the saved attributes state of a module is put back
\* after that module's build routine has run, space switching is made only
\* after the build routines of all modules have run, and a completed
\* build() ends with the post_build hook, the tagging and, last, is_built.
BuildStepsInOrder ==
    call.op = "build" =>
        /\ \A m \in ListSet(modules) :
               /\ InList(Event("set_attributes_state", m), Steps) =>
                      Before(Event("_build", m), Event("set_attributes_state", m), Steps)
               /\ InList(Event("create_space_switching", m), Steps) =>
                      \A k \in ListSet(modules) :
                          Before(Event("_build", k),
                                 Event("create_space_switching", m), Steps)
        /\ call.outcome = "ok" =>
               /\ Len(Steps) >= 3
               /\ Steps[Len(Steps) - 2] = Event("run_scripts:post_build", 0)
               /\ Steps[Len(Steps) - 1] = Event("tag_nodes_for_unbuild", 0)
               /\ Steps[Len(Steps)] = Event("is_built.set", 0)
               /\ is_built

\* C16 witness: a completed build() has put a saved attributes state back
\* and made the space switching of a controller.
BuildStepsInOrderWitness ==
    /\ call.op = "build"
    /\ call.outcome = "ok"
    /\ \E m \in ListSet(modules) : InList(Event("set_attributes_state", m), Steps)
    /\ \E m \in ListSet(modules) : InList(Event("create_space_switching", m), Steps)

\* the nodes of the scene made under the name given
NodesNamed(name, scene) == {n \in scene : n[1] = name}

\* C17: Rig() on a scene whose is_initialized is true makes no node and
\* adds no module; the one Rig() that finds it false makes the groups and
\* adds the default modules; is_initialized never goes back to false, and
\* from then on the scene has one MODULES, one EXTRAS and one SKELETON group.
InitializedOnce ==
    [][/\ is_initialized => is_initialized'
       /\ (call'.op = "Rig" /\ is_initialized) =>
              /\ nodes' = nodes
              /\ modules' = modules
              /\ log' = <<>>
       /\ (call'.op = "Rig" /\ ~is_initialized) =>
              /\ is_initialized'
              /\ Len(modules') = Len(modules) + Len(default_modules)
              /\ Occurrences(Event("is_initialized.set", 0), log') = 1
       /\ is_initialized' =>
              \A name \in {"MODULES", "EXTRAS", "SKELETON"} :
                  Cardinality(NodesNamed(name, nodes')) = 1]_vars

\* C17 witness: Rig() has run again on a rig that had lost a default module
\* and has put nothing back.
InitializedOnceWitness ==
    /\ call.op = "Rig"
    /\ calls >= 2
    /\ is_initialized
    /\ log = <<>>
    /\ Len(modules) < Len(default_modules)

\* the nodes of the scene that a build pass made
BuildMadeNodes == {n \in nodes : n[1] \in {"build", "space"}}

\* C19: between calls, whenever rig.is_built is false every module's
\* is_built is false and every node a build pass made that is still in the
\* scene carries is_build_node.
UnbuiltRigIsClean ==
    ~is_built =>
        /\ \A m \in ListSet(modules) : ~module_is_built[m]
        /\ BuildMadeNodes \subseteq tagged

====
